---------------------------- MODULE Spec2Model ----------------------------
(***************************************************************************)
(* anerd: Asynchronous Network Exchange Randomness Daemon (src/anerd.c).   *)
(*                                                                         *)
(* main() forks: the child runs anerd_client (the Donor), the parent runs  *)
(* anerd_server (the Responder).  Each function is modelled statement by   *)
(* statement with a program counter (spc for the server process, cpc for   *)
(* the client process).  The results of system and library calls (socket,  *)
(* fopen, calloc, bind, setsockopt, recvfrom, fread, sendto, gettimeofday) *)
(* are inputs chosen by the environment.  Writes to the pool device are    *)
(* taken to succeed; reads from it may be short.                           *)
(*                                                                         *)
(* A byte is modelled by its class: NUL is the zero byte, "P" a non-zero    *)
(* byte that came from a peer's datagram, "R" a non-zero byte that came    *)
(* from a read of the pool device, "H" a non-zero byte of memory outside   *)
(* the data buffer.                                                        *)
(***************************************************************************)
EXTENDS Integers, Sequences, FiniteSets, TLC

\* ------------------------------------------------------------- bounds
\* Largest datagram buffer size (-s) the model configures.
MaxSize == 2
\* The counter of sleeps since the last broadcast saturates here.
MaxSleeps == 2

\* ---------------------------------------------------- program constants
DEFAULT_PORT == 26373
\* sizeof(double): the number of bytes fwrite(&salt, sizeof(double), 1, fp) writes.
SaltBytes == 8

\* -------------------------------------------------------------- inputs
\* Values of -s, -i and -p that main() hands to both roles.
Sizes == 1..MaxSize
Intervals == {-1, 0, 1}
Ports == {DEFAULT_PORT}
\* Addresses recvfrom() can report as the sender of a datagram.
Peers == {"X", "Y"}
\* Microsecond readings of gettimeofday() (tv.tv_usec is in 0..999999) the
\* server sees: 0 (scalar 0), and 2148, the smallest reading whose scalar
\* 1000001 * usec does not fit 32 bits.
UsecValues == {0, 2148}
\* Classes of bytes a peer can send, and that the pool device can return.
NUL == "nul"
PeerBytes == {NUL, "P"}
PoolBytes == {NUL, "R"}

\* --------------------------------------------- 32-bit and 64-bit integers
\* Integers wider than 31 bits are held as little-endian sequences of base-256
\* digits in two's complement, so that no intermediate value leaves the range
\* of the model checker's own integers.
Pow256(i) == IF i = 0 THEN 1 ELSE IF i = 1 THEN 256 ELSE IF i = 2 THEN 65536 ELSE 16777216

\* The k-byte two's complement of an integer n with -2^31 <= n < 2^31
\* (floor division sign-extends).
Bytes(n, k) == [i \in 1..k |-> IF i <= 4 THEN (n \div Pow256(i - 1)) % 256
                                ELSE IF n < 0 THEN 255 ELSE 0]

RECURSIVE ColumnSum(_, _, _, _)
\* Sum of A[i] * B[k + 1 - i] for i in 1..j: column k of the schoolbook product.
ColumnSum(A, B, k, j) ==
    IF j = 0 THEN 0
    ELSE (IF j <= Len(A) /\ k + 1 - j >= 1 /\ k + 1 - j <= Len(B)
             THEN A[j] * B[k + 1 - j] ELSE 0) + ColumnSum(A, B, k, j - 1)

RECURSIVE MulCarry(_, _, _, _, _)
\* Digits k..w of the product of A and B modulo 256^w, given the carry into column k.
MulCarry(A, B, w, k, carry) ==
    IF k > w THEN << >>
    ELSE LET s == ColumnSum(A, B, k, k) + carry
         IN  << s % 256 >> \o MulCarry(A, B, w, k + 1, s \div 256)

\* The product of two w-byte two's complement numbers, modulo 256^w.
MulBytes(A, B, w) == MulCarry(A, B, w, 1, 0)

\* The 32-bit signed integer held in the low four bytes of D.
Int32Of(D) == D[1] + 256 * D[2] + 65536 * D[3]
              + 16777216 * (IF D[4] >= 128 THEN D[4] - 256 ELSE D[4])

\* Conversion of the long value 1000000 * usec + usec to int (lines 85, 92):
\* the low 32 bits of the 64-bit result, 1000000 * usec + usec = 1000001 * usec.
TimeScalar(usec) == Int32Of(MulBytes(Bytes(1000001, 8), Bytes(usec, 8), 8))

\* The exact product of two ints, as 8 bytes.
ExactProduct(a, b) == MulBytes(Bytes(a, 8), Bytes(b, 8), 8)
\* The product as 32-bit wrap-around arithmetic gives it, sign-extended to 8 bytes.
WrappedProduct(a, b) == Bytes(Int32Of(ExactProduct(a, b)), 8)
\* TRUE when last_usec * this_usec overflows int (undefined behaviour).
ProductOverflows(a, b) == ExactProduct(a, b) # WrappedProduct(a, b)

\* Mutant of SaltValues: the two values packed side by side (b in the low
\* four bytes, a in the high four), which tells every pair apart.
SaltPacked(a, b) == {[i \in 1..8 |-> IF i <= 4 THEN Bytes(b, 4)[i] ELSE Bytes(a, 4)[i - 4]]}

\* The values salt = last_usec * this_usec can take: the product when it fits
\* an int; on overflow (undefined behaviour) the 32-bit wrap-around result or
\* the exact product of a build that multiplies in a wider register.
SaltValues(a, b) == {WrappedProduct(a, b), ExactProduct(a, b)}

\* The two computations above, tabulated once over the clock readings of the
\* model and looked up by the actions.
ScalarTable == {<<usec, TimeScalar(usec)>> : usec \in UsecValues}
UsecScalar(usec) == (CHOOSE row \in ScalarTable : row[1] = usec)[2]
Scalars == {row[2] : row \in ScalarTable}
SaltTable == {<<ab, SaltValues(ab[1], ab[2])>> : ab \in Scalars \X Scalars}
SaltOutcomes(a, b) == (CHOOSE row \in SaltTable : row[1] = <<a, b>>)[2]

\* ---------------------------------------------------------------- state
VARIABLES
    size, port, interval,  \* main: the values of -s, -p and -i
    mpc,                   \* main: "start" before fork(), "forked" after
    \* --- anerd_server (the parent process)
    spc,                   \* position in anerd_server
    sstatus,               \* exit status of the server process ("run" while it runs)
    data,                  \* the calloc'ed buffer, data[0..size-1]
    past,                  \* the byte of memory at data[size], one past the buffer
    bytes_read,            \* result of the last recvfrom(): -1, or 0..size
    client_addr,           \* sender address filled in by recvfrom()
    last_usec,             \* the rolling timestamp scalar
    salt,                  \* the salt of this iteration, as 8 bytes
    fpbuf,                 \* bytes fwrite() has put in the stream buffer of fp
    sreported,             \* messages the server has passed to perror()
    \* history of the current loop iteration of the server (reset by recvfrom)
    poolIn,                \* bytes of this iteration that reached the pool device
    steps,                 \* the calls made so far, in order
    reply,                 \* the arguments and result of sendto(), or NoReply
    slog,                  \* the syslog records written
    iter,                  \* what recvfrom captured, the clock values and the stores into data
    sdone,                 \* history: kinds of I/O the server has ever performed
    sfail,                 \* history: the setup step that failed, or "none"
    \* --- anerd_client (the child process)
    cpc,                   \* position in anerd_client
    cstatus,               \* exit status of the client process ("run" while it runs)
    csock,                 \* TRUE when socket() returned a descriptor
    cbroadcast,            \* TRUE when setsockopt(SO_BROADCAST) succeeded
    creported,             \* messages the client has passed to perror()
    cfail,                 \* history: the client setup steps that failed
    cdone,                 \* history: kinds of I/O the client has ever performed
    cycle,                 \* history of the current cycle of the client loop
    sleeps,                \* history: sleeps since the last broadcast (-1 before the first)
    gap,                   \* history: value of sleeps when the last broadcast was sent
    donation               \* the arguments and result of the last sendto(), or NoDonation

cfgvars == <<size, port, interval, mpc>>
svars == <<spc, sstatus, data, past, bytes_read, client_addr, last_usec, salt,
           fpbuf, sreported, poolIn, steps, reply, slog, iter, sdone, sfail>>
cvars == <<cpc, cstatus, csock, cbroadcast, creported, cfail, cdone,
           cycle, sleeps, gap, donation>>
vars == <<cfgvars, svars, cvars>>

NoReply == [len |-> -1, bytes |-> << >>, to |-> "none", ok |-> FALSE]
NoDonation == [len |-> -1, to |-> "none", port |-> -1, ok |-> FALSE]
NoCycle == [read |-> -1, logged |-> 0, sent |-> 0, reported |-> FALSE, slept |-> 0, nap |-> 0]
ZeroSalt == Bytes(0, SaltBytes)
\* Nothing received, no clock read and no store into data yet.
NoIter == [from |-> "none", payload |-> << >>, usec |-> -1, last |-> 0, this |-> 0,
           wrote |-> {}]

\* History: the pair of values the salt was made from, and the clock reading.
Stamped(st, usec, last, this) == [st EXCEPT !.usec = usec, !.last = last, !.this = this]

\* calloc(size, sizeof(char)): size zero bytes (line 69).
ZeroBuffer(n) == [i \in 0..(n - 1) |-> NUL]

Init ==
    /\ size \in Sizes /\ port \in Ports /\ interval \in Intervals
    /\ mpc = "start"
    /\ spc = "none" /\ sstatus = "run"
    /\ data = ZeroBuffer(size) /\ past = "H"
    /\ bytes_read = 0 /\ client_addr = "uninit"
    /\ last_usec = 0 /\ salt = ZeroSalt
    /\ fpbuf = << >> /\ sreported = {}
    /\ poolIn = << >> /\ steps = << >> /\ reply = NoReply /\ slog = << >>
    /\ iter = NoIter
    /\ sdone = {} /\ sfail = "none"
    /\ cpc = "none" /\ cstatus = "run"
    /\ csock = FALSE /\ cbroadcast = FALSE
    /\ creported = {} /\ cfail = {} /\ cdone = {}
    /\ cycle = NoCycle /\ sleeps = -1 /\ gap = -1 /\ donation = NoDonation

\* ----------------------------------------------------------------- main
\* fork() (line 189): the child runs anerd_client, the parent anerd_server;
\* when fork() fails (-1) the caller runs anerd_server and there is no client.
main ==
    /\ mpc = "start"
    /\ mpc' = "forked"
    /\ spc' = "socket"
    /\ \E forked \in BOOLEAN : cpc' = IF forked THEN "calloc" ELSE "absent"
    /\ UNCHANGED <<size, port, interval>>
    /\ UNCHANGED <<sstatus, data, past, bytes_read, client_addr, last_usec, salt,
                   fpbuf, sreported, poolIn, steps, reply, slog, iter, sdone, sfail>>
    /\ UNCHANGED <<cstatus, csock, cbroadcast, creported, cfail, cdone,
                   cycle, sleeps, gap, donation>>

\* Mutant of ChildUntouched: the roles as two threads of one process, where
\* exit() or a crash in the server ends the client too.
ChildDiesWithParent ==
    IF spc' \in {"exited", "crashed"}
       THEN /\ cpc' = "exited"
            /\ cstatus' = "1"
            /\ UNCHANGED <<csock, cbroadcast, creported, cfail, cdone,
                           cycle, sleeps, gap, donation>>
       ELSE UNCHANGED cvars

\* fork() (lines 189-195) makes the two roles two processes: exit(), a crash
\* or a return in one of them ends that process alone, and no step of one
\* writes a variable of the other.
ChildUntouched == UNCHANGED cvars
ParentUntouched == UNCHANGED svars

\* --------------------------------------------------------- anerd_server
\* Variables of the server that only the loop body writes.
loopvars == <<data, past, bytes_read, client_addr, last_usec, salt, fpbuf,
              poolIn, steps, reply, slog, iter>>

\* perror(msg); exit(1) in the server (lines 60-61, 65-66, 70-71, 79-80).
ServerFatal(msg, step) ==
    /\ sreported' = sreported \cup {msg}
    /\ sfail' = step
    /\ spc' = "exited"
    /\ sstatus' = "1"

\* A setup call that went well: on to the next statement.
ServerNext(next) ==
    /\ spc' = next
    /\ UNCHANGED <<sreported, sfail, sstatus>>

\* The process is killed by a signal (an outcome of undefined behaviour).
ServerCrash ==
    /\ spc' = "crashed"
    /\ sstatus' = "signal"

\* sock = socket(AF_INET, SOCK_DGRAM, 0) (lines 59-62).
SrvSocket ==
    /\ spc = "socket"
    /\ \E ok \in BOOLEAN :
          IF ok THEN ServerNext("fopen") ELSE ServerFatal("Socket", "socket")
    /\ ChildUntouched /\ UNCHANGED <<cfgvars, loopvars, sdone>>

\* fp = fopen(device, "a+") (lines 64-67).
SrvFopen ==
    /\ spc = "fopen"
    /\ \E ok \in BOOLEAN :
          IF ok THEN ServerNext("calloc") ELSE ServerFatal("fopen", "fopen")
    /\ ChildUntouched /\ UNCHANGED <<cfgvars, loopvars, sdone>>

\* data = calloc(size, sizeof(char)) (lines 69-72).
SrvCalloc ==
    /\ spc = "calloc"
    /\ \E ok \in BOOLEAN :
          IF ok THEN /\ ServerNext("bind")
                     /\ data' = ZeroBuffer(size)
                ELSE /\ ServerFatal("calloc", "calloc")
                     /\ UNCHANGED data
    /\ ChildUntouched /\ UNCHANGED <<cfgvars, sdone>>
    /\ UNCHANGED <<past, bytes_read, client_addr, last_usec, salt, fpbuf,
                   poolIn, steps, reply, slog, iter>>

\* Mutant of SrvBind: the failure is reported but exit(1) is missing.
SrvBind_NoExit ==
    /\ spc = "bind"
    /\ \E ok \in BOOLEAN :
          IF ok THEN ServerNext("seed")
                ELSE /\ sreported' = sreported \cup {"Bind"}
                     /\ sfail' = "bind"
                     /\ spc' = "seed"
                     /\ UNCHANGED sstatus
    /\ ChildUntouched /\ UNCHANGED <<cfgvars, loopvars, sdone>>

\* bind(sock, &server_addr, ...) (lines 74-81).
SrvBind ==
    /\ spc = "bind"
    /\ \E ok \in BOOLEAN :
          IF ok THEN ServerNext("seed") ELSE ServerFatal("Bind", "bind")
    /\ ChildUntouched /\ UNCHANGED <<cfgvars, loopvars, sdone>>

\* gettimeofday(&tv, &tz); last_usec = 1000000 * tv.tv_usec + tv.tv_usec
\* (lines 82-85).
SrvSeed ==
    /\ spc = "seed"
    /\ \E usec \in UsecValues :
          /\ last_usec' = UsecScalar(usec)
          /\ iter' = [NoIter EXCEPT !.usec = usec, !.this = UsecScalar(usec)]
    /\ spc' = "recv"
    /\ ChildUntouched /\ UNCHANGED <<cfgvars, sdone, sreported, sfail, sstatus>>
    /\ UNCHANGED <<data, past, bytes_read, client_addr, salt, fpbuf,
                   poolIn, steps, reply, slog>>

\* The first n bytes of buffer d, as a sequence.
Prefix(d, n) == [i \in 1..n |-> d[i - 1]]

\* strlen(data) as far as the buffer goes: the index of the first NUL byte in
\* d[0..sz-1], or sz when the buffer holds none (strlen then reads on).
Strlen(d, sz) ==
    IF \E i \in 0..(sz - 1) : d[i] = NUL
        THEN CHOOSE i \in 0..(sz - 1) :
                 d[i] = NUL /\ \A j \in 0..(i - 1) : d[j] # NUL
        ELSE sz

\* What one fwrite() call puts in the stream: bytes of the buffer, or the salt.
DataChunk(bs) == [kind |-> "data", bytes |-> bs, num |-> << >>]
SaltChunk(v) == [kind |-> "salt", bytes |-> << >>, num |-> v]
ChunkLen(c) == Len(c.bytes) + Len(c.num)

\* bytes_read = recvfrom(sock, data, size, 0, &client_addr, &addr_len) (line 88).
\* The call returns -1 on error and leaves data and client_addr alone;
\* otherwise it stores the first n <= size bytes of the datagram and its sender.
SrvRecvfrom ==
    /\ spc = "recv"
    /\ \E n \in -1..size :
         \E peer \in Peers :
           \E payload \in [0..(n - 1) -> PeerBytes] :
             /\ bytes_read' = n
             /\ iter' = [NoIter EXCEPT !.from = IF n = -1 THEN "none" ELSE peer,
                                       !.payload = Prefix(payload, n),
                                       !.wrote = 0..(n - 1)]
             /\ IF n = -1
                   THEN UNCHANGED <<data, client_addr>>
                   ELSE /\ data' = [i \in 0..(size - 1) |->
                                       IF i < n THEN payload[i] ELSE data[i]]
                        /\ client_addr' = peer
    /\ poolIn' = << >> /\ reply' = NoReply /\ slog' = << >>
    /\ steps' = <<"recvfrom">>
    /\ sdone' = sdone \cup {"recv"}
    /\ spc' = "term"
    /\ ChildUntouched /\ UNCHANGED <<cfgvars, past, last_usec, salt, fpbuf, sreported, sfail, sstatus>>

\* data[bytes_read] = '\0' (line 89).  With bytes_read = size or -1 the store
\* is outside the buffer (undefined behaviour): the process dies, or the
\* store lands in the neighbouring memory.
SrvTerminate ==
    /\ spc = "term"
    /\ iter' = [iter EXCEPT !.wrote = @ \cup {bytes_read}]
    /\ IF 0 <= bytes_read /\ bytes_read < size
          THEN /\ data' = [data EXCEPT ![bytes_read] = NUL]
               /\ spc' = "stamp"
               /\ UNCHANGED <<past, sstatus>>
          ELSE \/ /\ ServerCrash
                  /\ UNCHANGED <<data, past>>
               \/ /\ spc' = "stamp"
                  /\ past' = IF bytes_read = size THEN NUL ELSE past
                  /\ UNCHANGED <<data, sstatus>>
    /\ ChildUntouched /\ UNCHANGED <<cfgvars, bytes_read, client_addr, last_usec, salt, fpbuf,
                   sreported, sfail, poolIn, steps, reply, slog, sdone>>

\* gettimeofday(&tv, &tz); this_usec = 1000000 * tv.tv_usec + tv.tv_usec;
\* salt = last_usec * this_usec; last_usec = this_usec (lines 91-94).
SrvSalt ==
    /\ spc = "stamp"
    /\ \E usec \in UsecValues :
         LET this_usec == UsecScalar(usec)
         IN  /\ salt' \in SaltOutcomes(last_usec, this_usec)
             /\ last_usec' = this_usec
             /\ iter' = Stamped(iter, usec, last_usec, this_usec)
    /\ spc' = "logrecv"
    /\ ChildUntouched /\ UNCHANGED <<cfgvars, data, past, bytes_read, client_addr, fpbuf,
                   sreported, sfail, sstatus, poolIn, steps, reply, slog, sdone>>

\* syslog(LOG_INFO, "Received [%d] bytes from [%s:%d]", bytes_read, ...)
\* (lines 96-97).
SrvLogReceived ==
    /\ spc = "logrecv"
    /\ UNCHANGED iter
    /\ slog' = Append(slog, [msg |-> "Received", bytes |-> bytes_read, peer |-> client_addr])
    /\ spc' = "fwrite"
    /\ ChildUntouched /\ UNCHANGED <<cfgvars, data, past, bytes_read, client_addr, last_usec, salt,
                   fpbuf, sreported, sfail, sstatus, poolIn, steps, reply, sdone>>

\* Mutant of SrvFwrite: the terminator at data[bytes_read] is written out too.
SrvFwrite_WithTerminator ==
    /\ spc = "fwrite"
    /\ UNCHANGED iter
    /\ bytes_read >= 0
    /\ fpbuf' = fpbuf \o <<DataChunk(Prefix(data, bytes_read) \o <<NUL>>), SaltChunk(salt)>>
    /\ spc' = "fflush"
    /\ steps' = steps \o <<"fwrite", "fwrite_salt">>
    /\ sdone' = sdone \cup {"append"}
    /\ ChildUntouched /\ UNCHANGED <<cfgvars, data, past, bytes_read, client_addr, last_usec, salt,
                   sreported, sfail, sstatus, poolIn, reply, slog>>

\* fwrite(data, sizeof(char), bytes_read, fp); fwrite(&salt, sizeof(double), 1, fp)
\* (lines 99-100).  With bytes_read = -1 the count is (size_t)-1 and fwrite
\* reads far beyond the buffer (undefined behaviour): the process dies, or
\* memory after the buffer goes into the stream.
SrvFwrite ==
    /\ spc = "fwrite"
    /\ UNCHANGED iter
    /\ IF bytes_read >= 0
          THEN /\ fpbuf' = fpbuf \o <<DataChunk(Prefix(data, bytes_read)), SaltChunk(salt)>>
               /\ spc' = "fflush"
               /\ UNCHANGED sstatus
          ELSE \/ /\ ServerCrash
                  /\ UNCHANGED fpbuf
               \/ /\ fpbuf' = fpbuf \o <<DataChunk(Prefix(data, size) \o <<"H">>),
                                         SaltChunk(salt)>>
                  /\ spc' = "fflush"
                  /\ UNCHANGED sstatus
    /\ steps' = steps \o <<"fwrite", "fwrite_salt">>
    /\ sdone' = sdone \cup {"append"}
    /\ ChildUntouched /\ UNCHANGED <<cfgvars, data, past, bytes_read, client_addr, last_usec, salt,
                   sreported, sfail, poolIn, reply, slog>>

\* Mutant of SrvFflush: the flush is left out, the bytes stay in the stream.
SrvFflush_Omitted ==
    /\ spc = "fflush"
    /\ UNCHANGED iter
    /\ spc' = "fread"
    /\ ChildUntouched /\ UNCHANGED <<cfgvars, data, past, bytes_read, client_addr, last_usec, salt,
                   fpbuf, poolIn, steps, sreported, sfail, sstatus, reply, slog, sdone>>

\* fflush(fp) (line 101): what the stream holds goes to the pool device.
SrvFflush ==
    /\ spc = "fflush"
    /\ UNCHANGED iter
    /\ poolIn' = poolIn \o fpbuf
    /\ fpbuf' = << >>
    /\ steps' = Append(steps, "fflush")
    /\ spc' = "fread"
    /\ ChildUntouched /\ UNCHANGED <<cfgvars, data, past, bytes_read, client_addr, last_usec, salt,
                   sreported, sfail, sstatus, reply, slog, sdone>>

\* fread(data, sizeof(char), bytes_read, fp) (line 103); the result is not
\* looked at.  The device returns k <= bytes_read bytes, which overwrite
\* data[0..k-1].  With bytes_read = -1 the count is (size_t)-1 and the read
\* runs over the end of the buffer (undefined behaviour).
SrvFread ==
    /\ spc = "fread"
    /\ IF bytes_read >= 0
          THEN /\ \E k \in 0..bytes_read :
                    \E got \in [0..(k - 1) -> PoolBytes] :
                      /\ data' = [i \in 0..(size - 1) |->
                                     IF i < k THEN got[i] ELSE data[i]]
                      /\ iter' = [iter EXCEPT !.wrote = @ \cup 0..(k - 1)]
               /\ spc' = "sendto"
               /\ UNCHANGED <<past, sstatus>>
          ELSE \/ /\ ServerCrash
                  /\ UNCHANGED <<data, past, iter>>
               \/ /\ data' \in [0..(size - 1) -> PoolBytes]
                  /\ past' \in PoolBytes
                  /\ iter' = [iter EXCEPT !.wrote = @ \cup 0..size]
                  /\ spc' = "sendto"
                  /\ UNCHANGED sstatus
    /\ steps' = Append(steps, "fread")
    /\ sdone' = sdone \cup {"read"}
    /\ ChildUntouched /\ UNCHANGED <<cfgvars, bytes_read, client_addr, last_usec, salt, fpbuf,
                   sreported, sfail, poolIn, reply, slog>>

\* What sendto() was given and whether it succeeded.
Sent(len, bs, ok) == [len |-> len, bytes |-> bs, to |-> client_addr, ok |-> ok]

\* Mutant of SrvSendto: a send that fails is tried again.
SrvSendto_Retry ==
    /\ spc = "sendto"
    /\ UNCHANGED iter
    /\ LET len == IF Strlen(data, size) < size THEN Strlen(data, size) ELSE size
       IN  \E ok \in BOOLEAN :
             /\ reply' = Sent(len, Prefix(data, len), ok)
             /\ spc' = IF ok THEN "logsend" ELSE "sendto"
    /\ steps' = Append(steps, "sendto")
    /\ sdone' = sdone \cup {"send"}
    /\ ChildUntouched /\ UNCHANGED <<cfgvars, data, past, bytes_read, client_addr, last_usec, salt,
                   fpbuf, sreported, sfail, sstatus, poolIn, slog>>

\* sendto(sock, data, strlen(data), 0, &client_addr, ...) (line 105); the
\* result is not looked at.  When the buffer holds no NUL byte strlen reads
\* data[size] and beyond (undefined behaviour): the process dies, or strlen
\* stops at the first NUL byte it finds after the buffer.
SrvSendto ==
    /\ spc = "sendto"
    /\ UNCHANGED iter
    /\ LET len == Strlen(data, size)
       IN  IF len < size
              THEN /\ \E ok \in BOOLEAN : reply' = Sent(len, Prefix(data, len), ok)
                   /\ spc' = "logsend"
                   /\ UNCHANGED sstatus
              ELSE \/ /\ ServerCrash
                      /\ UNCHANGED reply
                   \/ /\ \E ok \in BOOLEAN :
                           reply' = IF past = NUL
                                       THEN Sent(size, Prefix(data, size), ok)
                                       ELSE Sent(size + 1, Prefix(data, size) \o <<past>>, ok)
                      /\ spc' = "logsend"
                      /\ UNCHANGED sstatus
    /\ steps' = Append(steps, "sendto")
    /\ sdone' = sdone \cup {"send"}
    /\ ChildUntouched /\ UNCHANGED <<cfgvars, data, past, bytes_read, client_addr, last_usec, salt,
                   fpbuf, sreported, sfail, poolIn, slog>>

\* syslog(LOG_INFO, "Transmit [%d] bytes to [%s:%d]", bytes_read, ...) (line 106),
\* then back to the head of while (1).
SrvLogTransmit ==
    /\ spc = "logsend"
    /\ UNCHANGED iter
    /\ slog' = Append(slog, [msg |-> "Transmit", bytes |-> bytes_read, peer |-> client_addr])
    /\ spc' = "recv"
    /\ ChildUntouched /\ UNCHANGED <<cfgvars, data, past, bytes_read, client_addr, last_usec, salt,
                   fpbuf, sreported, sfail, sstatus, poolIn, steps, reply, sdone>>

anerd_server ==
    \/ SrvSocket \/ SrvFopen \/ SrvCalloc \/ SrvBind \/ SrvSeed
    \/ SrvRecvfrom \/ SrvTerminate \/ SrvSalt \/ SrvLogReceived
    \/ SrvFwrite \/ SrvFflush \/ SrvFread \/ SrvSendto \/ SrvLogTransmit

\* --------------------------------------------------------- anerd_client
\* perror(msg); exit(1) in the client (lines 129-130, 146-148).
ClientFatal(msg, step) ==
    /\ creported' = creported \cup {msg}
    /\ cfail' = cfail \cup {step}
    /\ cpc' = "exited"
    /\ cstatus' = "1"

\* perror(msg) alone: the client goes on to the next statement (lines 134, 138).
ClientComplain(msg, step, next) ==
    /\ creported' = creported \cup {msg}
    /\ cfail' = cfail \cup {step}
    /\ cpc' = next
    /\ UNCHANGED cstatus

\* data = calloc(size, sizeof(char)) (lines 128-131).
CliCalloc ==
    /\ cpc = "calloc"
    /\ \E ok \in BOOLEAN :
          IF ok THEN /\ cpc' = "socket"
                     /\ UNCHANGED <<creported, cfail, cstatus>>
                ELSE ClientFatal("calloc", "calloc")
    /\ ParentUntouched
    /\ UNCHANGED <<cfgvars, csock, cbroadcast, cdone, cycle, sleeps, gap, donation>>

\* sock = socket(AF_INET, SOCK_DGRAM, 0) (lines 133-135): a failure is
\* reported with perror and the function goes on with sock = -1.
CliSocket ==
    /\ cpc = "socket"
    /\ \E ok \in BOOLEAN :
          /\ csock' = ok
          /\ IF ok THEN /\ cpc' = "setsockopt"
                        /\ UNCHANGED <<creported, cfail, cstatus>>
                   ELSE ClientComplain("socket", "socket", "setsockopt")
    /\ ParentUntouched
    /\ UNCHANGED <<cfgvars, cbroadcast, cdone, cycle, sleeps, gap, donation>>

\* setsockopt(sock, SOL_SOCKET, SO_BROADCAST, ...) (lines 137-139), then the
\* destination address is filled in (lines 140-143).  The call fails on a
\* socket that was never created; a failure is reported with perror and the
\* function goes on.
CliSetsockopt ==
    /\ cpc = "setsockopt"
    /\ \E ok \in BOOLEAN :
          /\ ok => csock
          /\ cbroadcast' = ok
          /\ IF ok THEN /\ cpc' = "fopen"
                        /\ UNCHANGED <<creported, cfail, cstatus>>
                   ELSE ClientComplain("setsockopt (SO_BROADCAST)", "setsockopt", "fopen")
    /\ ParentUntouched
    /\ UNCHANGED <<cfgvars, csock, cdone, cycle, sleeps, gap, donation>>

\* fp = fopen(device, "r") (lines 144-149).
CliFopen ==
    /\ cpc = "fopen"
    /\ \E ok \in BOOLEAN :
          IF ok THEN /\ cpc' = "loop"
                     /\ UNCHANGED <<creported, cfail, cstatus>>
                ELSE ClientFatal("fopen", "fopen")
    /\ ParentUntouched
    /\ UNCHANGED <<cfgvars, csock, cbroadcast, cdone, cycle, sleeps, gap, donation>>

\* Mutant of CliWhile: the test is interval >= 0.
CliWhile_NonNegative ==
    /\ cpc = "loop"
    /\ IF interval >= 0
          THEN /\ cpc' = "fread"
               /\ cycle' = NoCycle
               /\ UNCHANGED cstatus
          ELSE /\ cpc' = "returned"
               /\ cstatus' = "0"
               /\ UNCHANGED cycle
    /\ ParentUntouched
    /\ UNCHANGED <<cfgvars, csock, cbroadcast, creported, cfail, cdone, sleeps, gap, donation>>

\* while (interval > 0) (line 151).  When the test fails the function cleans
\* up and returns 0 (lines 163-166), main returns and the child process ends
\* with status 0.
CliWhile ==
    /\ cpc = "loop"
    /\ IF interval > 0
          THEN /\ cpc' = "fread"
               /\ cycle' = NoCycle
               /\ UNCHANGED cstatus
          ELSE /\ cpc' = "returned"
               /\ cstatus' = "0"
               /\ UNCHANGED cycle
    /\ ParentUntouched
    /\ UNCHANGED <<cfgvars, csock, cbroadcast, creported, cfail, cdone, sleeps, gap, donation>>

\* Mutant of CliFread: the test is fread(...) >= 0, so an empty read donates too.
CliFread_NonNegative ==
    /\ cpc = "fread"
    /\ \E k \in 0..size :
          /\ cycle' = [cycle EXCEPT !.read = k]
          /\ cpc' = "donate"
          /\ UNCHANGED creported
    /\ cdone' = cdone \cup {"read"}
    /\ ParentUntouched
    /\ UNCHANGED <<cfgvars, cstatus, csock, cbroadcast, cfail, sleeps, gap, donation>>

\* if (fread(data, 1, size, fp) > 0) ... else perror("fread") (lines 153, 156-158).
CliFread ==
    /\ cpc = "fread"
    /\ \E k \in 0..size :
          IF k > 0
             THEN /\ cycle' = [cycle EXCEPT !.read = k]
                  /\ cpc' = "donate"
                  /\ UNCHANGED creported
             ELSE /\ cycle' = [cycle EXCEPT !.read = 0, !.reported = TRUE]
                  /\ creported' = creported \cup {"fread"}
                  /\ cpc' = "sleep"
    /\ cdone' = cdone \cup {"read"}
    /\ ParentUntouched
    /\ UNCHANGED <<cfgvars, cstatus, csock, cbroadcast, cfail, sleeps, gap, donation>>

\* Mutant of CliDonate: sendto is given the number of bytes fread returned.
CliDonate_SendsWhatWasRead ==
    /\ cpc = "donate"
    /\ \E ok \in BOOLEAN :
          /\ ok => (csock /\ cbroadcast)
          /\ donation' = [len |-> cycle.read, to |-> "INADDR_BROADCAST", port |-> port, ok |-> ok]
    /\ cycle' = [cycle EXCEPT !.logged = @ + 1, !.sent = @ + 1]
    /\ gap' = sleeps
    /\ sleeps' = 0
    /\ cdone' = cdone \cup {"broadcast"}
    /\ cpc' = "sleep"
    /\ ParentUntouched
    /\ UNCHANGED <<cfgvars, cstatus, csock, cbroadcast, creported, cfail>>

\* syslog(LOG_INFO, "Donated  [%d] bytes to [%s:%d]", size, ...);
\* sendto(sock, data, size, 0, &server_addr, ...) to INADDR_BROADCAST and port
\* (lines 154-155); the result is not looked at.  The send cannot succeed
\* without a socket, nor to the broadcast address without SO_BROADCAST.
CliDonate ==
    /\ cpc = "donate"
    /\ \E ok \in BOOLEAN :
          /\ ok => (csock /\ cbroadcast)
          /\ donation' = [len |-> size, to |-> "INADDR_BROADCAST", port |-> port, ok |-> ok]
    /\ cycle' = [cycle EXCEPT !.logged = @ + 1, !.sent = @ + 1]
    /\ gap' = sleeps
    /\ sleeps' = 0
    /\ cdone' = cdone \cup {"broadcast"}
    /\ cpc' = "sleep"
    /\ ParentUntouched
    /\ UNCHANGED <<cfgvars, cstatus, csock, cbroadcast, creported, cfail>>

\* sleep(interval) (line 160), then back to the test of the loop.
CliSleep ==
    /\ cpc = "sleep"
    /\ cycle' = [cycle EXCEPT !.slept = @ + 1, !.nap = interval]
    /\ sleeps' = IF sleeps = -1 THEN -1
                 ELSE IF sleeps < MaxSleeps THEN sleeps + 1 ELSE MaxSleeps
    /\ cdone' = cdone \cup {"sleep"}
    /\ cpc' = "loop"
    /\ ParentUntouched
    /\ UNCHANGED <<cfgvars, cstatus, csock, cbroadcast, creported, cfail, gap, donation>>

anerd_client ==
    \/ CliCalloc \/ CliSocket \/ CliSetsockopt \/ CliFopen
    \/ CliWhile \/ CliFread \/ CliDonate \/ CliSleep

\* ------------------------------------------------------ specifications
\* The whole daemon: both processes, every interleaving.
Next ==
    \/ main
    \/ SrvSocket \/ SrvFopen \/ SrvCalloc \/ SrvBind \/ SrvSeed
    \/ SrvRecvfrom \/ SrvTerminate \/ SrvSalt \/ SrvLogReceived
    \/ SrvFwrite \/ SrvFflush \/ SrvFread \/ SrvSendto \/ SrvLogTransmit
    \/ CliCalloc \/ CliSocket \/ CliSetsockopt \/ CliFopen
    \/ CliWhile \/ CliFread \/ CliDonate \/ CliSleep

Spec == Init /\ [][Next]_vars

\* The Responder on its own: the runs in which only the parent process is
\* scheduled.  The server never reads interval.
InitResponder == Init /\ interval = 1
NextResponder ==
    \/ main
    \/ SrvSocket \/ SrvFopen \/ SrvCalloc \/ SrvBind \/ SrvSeed
    \/ SrvRecvfrom \/ SrvTerminate \/ SrvSalt \/ SrvLogReceived
    \/ SrvFwrite \/ SrvFflush \/ SrvFread \/ SrvSendto \/ SrvLogTransmit
SpecResponder == InitResponder /\ [][NextResponder]_vars

\* The Donor on its own: the runs in which only the child process is scheduled.
NextDonor ==
    \/ main
    \/ CliCalloc \/ CliSocket \/ CliSetsockopt \/ CliFopen
    \/ CliWhile \/ CliFread \/ CliDonate \/ CliSleep
SpecDonor == Init /\ [][NextDonor]_vars

\* Both processes in every interleaving, for a daemon started with -s 1.
InitRoles == Init /\ size = 1 /\ interval \in {0, 1}
SpecRoles == InitRoles /\ [][Next]_vars

\* --------------------------------------------------------------- claims
Range(seq) == {seq[i] : i \in 1..Len(seq)}
\* Call a was made before call b in the current iteration of the server loop.
Before(a, b) == \E i, j \in 1..Len(steps) : i < j /\ steps[i] = a /\ steps[j] = b
ServerRunning == spc \notin {"none", "exited", "crashed"}
ClientRunning == cpc \notin {"none", "absent", "exited", "returned"}
InDonorLoop == cpc \in {"fread", "donate", "sleep"}

\* C1: the reply sent for a received datagram of n > 0 bytes has length
\* exactly n, whatever bytes the pool read returned.  (Fails on the code:
\* the length handed to sendto is strlen(data).)
C1_ReplyLengthIsReceived ==
    (reply # NoReply /\ bytes_read > 0) => reply.len = bytes_read

\* C2: within one iteration the append of the datagram (both fwrite calls and
\* the fflush) is complete, with payload and salt in the pool device and
\* nothing left in the stream, before the pool read is made, and the read is
\* made before the reply is sent.
C2_AppendBeforeRead ==
    /\ "fread" \in Range(steps) =>
          /\ Before("recvfrom", "fwrite")
          /\ Before("fwrite", "fwrite_salt")
          /\ Before("fwrite_salt", "fflush")
          /\ Before("fflush", "fread")
          /\ fpbuf = << >>
          /\ Len(poolIn) = 2
          /\ poolIn[1].kind = "data"
          /\ poolIn[2] = SaltChunk(salt)
          /\ bytes_read >= 0 => Len(poolIn[1].bytes) = bytes_read
    /\ reply # NoReply => Before("fread", "sendto")
C2_Witness == reply # NoReply /\ bytes_read > 0 /\ reply.len > 0

\* C3: every byte of a reply to a received datagram is a byte the pool read
\* returned, never a byte of the peer's payload.  (Fails on the code: bytes
\* that a short read leaves in the buffer are sent back.)
C3_ReplyBytesFromPool ==
    (reply # NoReply /\ bytes_read >= 0) =>
        \A i \in 1..Len(reply.bytes) : reply.bytes[i] = "R"

\* C4: once a setup step of the server has failed, the server process has
\* exited with status 1 and has made no receive, no pool append, no pool read
\* and no send.
C4_SetupFailureStopsResponder ==
    sfail # "none" =>
        /\ spc = "exited" /\ sstatus = "1"
        /\ sdone = {} /\ steps = << >>
        /\ fpbuf = << >> /\ poolIn = << >> /\ reply = NoReply
C4_Witness == sfail = "bind" /\ spc = "exited"

\* C5: once socket creation, the broadcast option or the device open has
\* failed in the client, the client never is in its loop and makes no pool
\* read and no broadcast.  (Fails on the code: after a failed socket() or
\* setsockopt() the function goes on into the loop.)
C5_SetupFailureStopsDonor ==
    (cfail \cap {"socket", "setsockopt", "fopen"}) # {} =>
        /\ ~InDonorLoop
        /\ cdone = {}

\* C6: the end of one process (exit, crash or return) changes nothing of the
\* other process, and while one process has ended and the other has not, the
\* other still has a step to take.
C6_RolesIsolated ==
    /\ [][(sstatus = "run" /\ sstatus' # "run") => UNCHANGED cvars]_vars
    /\ [][(cstatus = "run" /\ cstatus' # "run") => UNCHANGED svars]_vars
    /\ []((sstatus # "run" /\ ClientRunning) => (cstatus = "run" /\ ENABLED anerd_client))
    /\ []((cstatus # "run" /\ ServerRunning) => (sstatus = "run" /\ ENABLED anerd_server))
C6_Witness == sstatus # "run" /\ cpc = "loop" /\ "sleep" \in cdone

\* C7: with interval <= 0 the client makes no pool read, no broadcast and no
\* sleep, is never in its loop, and from the loop test returns with status 0.
C7_NoCycleWhenIntervalNotPositive ==
    /\ [](interval <= 0 =>
            /\ cdone = {} /\ cycle = NoCycle /\ donation = NoDonation
            /\ ~InDonorLoop
            /\ cpc = "returned" => cstatus = "0")
    /\ [][(interval <= 0 /\ cpc = "loop") => (cpc' = "returned" /\ cstatus' = "0")]_vars
C7_Witness == interval < 0 /\ cpc = "returned" /\ cstatus = "0"

\* C8: in a cycle whose pool read returned 0 bytes there is no broadcast and
\* no donation record, the failure is reported with perror, the client then
\* sleeps once and goes back to the loop test, which starts the next cycle.
C8_ZeroReadSkipsBroadcast ==
    /\ [](cycle.read = 0 =>
            /\ cycle.sent = 0 /\ cycle.logged = 0
            /\ cycle.reported /\ "fread" \in creported
            /\ cstatus = "run"
            /\ \/ cpc = "sleep" /\ cycle.slept = 0
               \/ cpc = "loop" /\ cycle.slept = 1 /\ cycle.nap = interval)
    /\ [][(cycle.read = 0 /\ cpc = "loop") => cpc' = "fread"]_vars
C8_Witness == cycle.read = 0 /\ cpc = "loop" /\ cycle.slept = 1

\* What C9 says of one cycle: after a read of at least one byte, exactly one
\* sendto of exactly size bytes to the broadcast address and the configured
\* port, then one sleep of interval seconds; never two broadcasts in a cycle.
OneBroadcastPerCycle ==
    /\ cycle.sent <= 1
    /\ (cycle.read > 0 /\ cpc \in {"sleep", "loop"}) =>
          /\ cycle.sent = 1
          /\ donation.len = size
          /\ donation.to = "INADDR_BROADCAST"
          /\ donation.port = port
    /\ cpc = "loop" /\ cycle.read >= 0 => cycle.slept = 1 /\ cycle.nap = interval

\* C9 as stated, for a client whose setup went well: one broadcast per cycle
\* with a non-empty read, and exactly one sleep between any two consecutive
\* broadcasts.  (Fails: a cycle with an empty read lies between two
\* broadcasts and sleeps as well.)
C9_ExactlyOneSleepBetween ==
    cfail = {} =>
        /\ OneBroadcastPerCycle
        /\ gap \in {-1, 1}

\* C9 as amended: one broadcast per cycle with a non-empty read, and at least
\* one sleep between any two consecutive broadcasts.
C9_AtLeastOneSleepBetween ==
    /\ OneBroadcastPerCycle
    /\ gap = -1 \/ gap >= 1
C9_Witness == cycle.read > 0 /\ cycle.read < size /\ cycle.sent = 1 /\ gap = 2

\* C10: a failed receive or a failed send in the server loop is reported
\* (perror) by the time the iteration ends and is never fatal.  (Fails on the
\* code: neither result is looked at, and a receive result of -1 is used as
\* an index and as a length.)
C10_LoopErrorsReportedNotFatal ==
    /\ spc = "crashed" => bytes_read # -1
    /\ (spc = "recv" /\ steps # << >> /\ bytes_read = -1) => "recvfrom" \in sreported
    /\ (spc = "recv" /\ reply # NoReply /\ ~reply.ok) => "sendto" \in sreported

\* The salt of the current iteration has been computed.
Salted == steps # << >> /\ iter.usec # -1

\* C11 as stated: the pair (previous value, current value) the salt was made
\* from is the only pair of timestamp values that can yield this salt.
\* (Fails: every pair with a zero value yields salt 0.)
C11_SaltInjective ==
    Salted =>
        \A ab \in Scalars \X Scalars :
            ab # <<iter.last, iter.this>> => salt \notin SaltOutcomes(ab[1], ab[2])

\* C11 as amended: the salt is a value of the multiplication of the pair it
\* was made from, and so is what the pair in the other order yields, and it
\* is 0 when either value of the pair is 0.
C11_SaltSymmetric ==
    Salted =>
        /\ salt \in SaltOutcomes(iter.last, iter.this)
        /\ salt \in SaltOutcomes(iter.this, iter.last)
        /\ (iter.last = 0 \/ iter.this = 0) => salt = ZeroSalt
C11_Witness == Salted /\ iter.last = 0 /\ iter.this # 0 /\ salt = ZeroSalt

\* The calls of one iteration of the server loop, in order.
FullIteration == <<"recvfrom", "fwrite", "fwrite_salt", "fflush", "fread", "sendto">>
IsPrefix(s, t) == Len(s) <= Len(t) /\ \A i \in 1..Len(s) : s[i] = t[i]

\* C12: the calls of an iteration are made in the order receive, append,
\* flush, read, send, each once, and the next receive is issued only when
\* all of them (with one send) have been made.
C12_OneDatagramAtATime ==
    /\ IsPrefix(steps, FullIteration)
    /\ spc = "recv" => steps \in {<< >>, FullIteration}
    /\ spc \in {"term", "stamp", "logrecv", "fwrite"} => steps = <<"recvfrom">>
    /\ spc = "logsend" => steps = FullIteration
C12_Witness == spc = "recv" /\ steps = FullIteration /\ bytes_read > 0 /\ reply # NoReply

\* C13: a reply goes to the sender captured by the recvfrom of the same
\* iteration, never to the sender of an earlier datagram.
\* (Fails: after a failed recvfrom the reply goes to the address left in
\* client_addr by an earlier iteration.)
C13_ReplyToSenderOfThisDatagram ==
    reply # NoReply => (iter.from # "none" /\ reply.to = iter.from)

\* What the iteration has handed to fwrite so far, flushed or not.
Appended == poolIn \o fpbuf

\* C14: for a datagram of n = bytes_read bytes the iteration appends two
\* chunks, the n received bytes in order and the 8-byte salt, n + 8 bytes in
\* all and no terminator, and nothing of it is left in the stream once the
\* pool is read.
C14_AppendsPayloadThenSalt ==
    (bytes_read >= 0 /\ "fwrite" \in Range(steps)) =>
        /\ Appended = <<DataChunk(iter.payload), SaltChunk(salt)>>
        /\ ChunkLen(Appended[1]) + ChunkLen(Appended[2]) = bytes_read + SaltBytes
        /\ "fread" \in Range(steps) => (fpbuf = << >> /\ Before("fflush", "fread"))
C14_Witness ==
    /\ 0 < bytes_read /\ bytes_read < size /\ "fread" \in Range(steps)
    /\ data[bytes_read] = NUL /\ Len(poolIn[1].bytes) = bytes_read

\* C15 as stated: the salt is the product of the value stored by the previous
\* iteration (or the seed) and the value taken in this one, and the value
\* stored afterwards is the one taken.
\* (Fails: the int multiplication overflows, see C19.)
C15_SaltIsProductOfStoredAndTaken ==
    Salted => (salt = ExactProduct(iter.last, iter.this) /\ last_usec = iter.this)

\* C16: every index of data the iteration stores to is within 0..size-1.
\* (Fails: data[bytes_read] = 0 with bytes_read = size.)
C16_WritesWithinBuffer == iter.wrote \subseteq 0..(size - 1)

\* C17: an iteration whose recvfrom failed stores nothing, appends nothing
\* and sends nothing.
\* (Fails: the result of recvfrom is never tested.)
C17_FailedReceiveDoesNothing ==
    bytes_read = -1 =>
        (iter.wrote \cap 0..(size - 1) = {} /\ Appended = << >> /\ reply = NoReply)

\* The records of the iteration with the given message.
Records(msg) == {i \in 1..Len(slog) : slog[i].msg = msg}

\* C18 (responder): an iteration that received a datagram and sent a reply
\* has emitted one "Received" and one "Transmit" record, and the byte count
\* of the "Transmit" record is the length handed to sendto.
\* (Fails: the record carries bytes_read, sendto is given strlen(data).)
C18_TransmitRecordCountsSentBytes ==
    (spc = "recv" /\ reply # NoReply /\ bytes_read >= 0) =>
        /\ Cardinality(Records("Received")) = 1
        /\ Cardinality(Records("Transmit")) = 1
        /\ \A i \in Records("Transmit") : slog[i].bytes = reply.len

\* C19: for every clock reading, 1000000 * usec + usec fits an int, and so
\* does last_usec * this_usec, so that the salt is the exact product.
\* (Fails: 1000001 * 2148 > 2^31 - 1.)
C19_NoOverflow ==
    iter.usec # -1 =>
        /\ Bytes(iter.this, 8) = MulBytes(Bytes(1000001, 8), Bytes(iter.usec, 8), 8)
        /\ Salted => (~ProductOverflows(iter.last, iter.this)
                        /\ salt = ExactProduct(iter.last, iter.this))

=============================================================================
